---- MODULE Spec2Model ----
(***************************************************************************)
(* A model of the zellij client's orchestration layer,                     *)
(* src/client/mod.rs: start_client, the main loop ("Orchestrator") and the *)
(* three threads it spawns (stdin_handler, signal_listener, router), the   *)
(* bounded instruction channel between them, the panic hook, the server   *)
(* on the other end of the connection and the terminal.                    *)
(*                                                                         *)
(* Every statement of start_client is one step of the main thread, so that *)
(* the other threads interleave with it as the scheduler allows.  The OS   *)
(* capability (ClientOsApi) is modelled by its effects: raw mode is a      *)
(* flag, stdout is the sequence of tokens written to it, the server        *)
(* connection is a pair of queues.  The stdout writer is taken to accept   *)
(* every write (the Err results that the unwrap/expect calls on lines 38,  *)
(* 145, 155, 156, 179, 180 would turn into panics are not modelled); the   *)
(* panics that are modelled are those of the spawned threads and the one   *)
(* they cause in the main thread at router_thread.join().unwrap().         *)
(***************************************************************************)
EXTENDS Naturals, Integers, Sequences, FiniteSets

(* ---------------------------------------------------------------- bounds *)

\* Capacity of the instruction channel. The program uses 500
\* (mpsc::sync_channel(500), line 56); the model keeps the channel bounded
\* and blocking but small enough for it to fill.
ChannelCapacity == 2

\* How many events the environment contributes to one run: an instruction
\* the server sends of its own accord (its answer to ClientExit comes on
\* top), a panic of a spawned thread, a resize of the terminal, a command
\* typed by the user.
MaxEnvEvents == 3

(* ---------------------------------------------------------------- values *)

\* Option<String>::None
None == "<none>"

\* Payloads of Render(Some(..)): "a" is plain content, "hide" is content that
\* contains the hide-cursor sequence ESC[?25l.
Texts == {"a", "hide"}

\* ClientInstruction (lines 24-30)
Exit == [t |-> "Exit", v |-> ""]
Error(backtrace) == [t |-> "Error", v |-> backtrace]
Render(output) == [t |-> "Render", v |-> output]
UnblockInputThread == [t |-> "UnblockInputThread", v |-> ""]

\* The instructions the server may send of its own accord.
ServerAlphabet ==
    {Render(x) : x \in Texts} \cup
    {Render(None), UnblockInputThread, Error("server error"), Exit}

\* ServerInstruction, the three variants the client sends. Of the terminal
\* size only the rows are kept: the columns are never read by start_client.
NewClient(ws) == [t |-> "NewClient", rows |-> ws]
TerminalResize(ws) == [t |-> "TerminalResize", rows |-> ws]
ClientExit == [t |-> "ClientExit", rows |-> 0]

\* Terminal sizes (rows) the terminal may have; it starts with the first and
\* a resize gives it another.
InitialRows == {24}
Rows == InitialRows \cup {50}

\* What is written to stdout, as tokens.
Tok(k) == [k |-> k, r |-> 0]
take_snapshot == Tok("ESC[?1049h")
restore_snapshot == Tok("ESC[?1049l")
reset_style == Tok("ESC[m")
show_cursor == Tok("ESC[?25h")
newline == Tok("\\n")
goto_start_of_last_line(rows) == [k |-> "ESC[{rows};1H", r |-> rows]
Text(s) == [k |-> s, r |-> 0]
goodbye_text == Tok("Bye from Zellij!\\n")

\* Exit status of the process; NotExited while it runs. A Rust process whose
\* main thread panics exits with status 101.
NotExited == 0 - 1
ExitOk == 0
ExitFailure == 1
ExitPanic == 101

VARIABLES
    mainPc,          \* where the main thread is in start_client
    exitCode,        \* NotExited, or the status the process exited with
    rawMode,         \* whether the terminal is in raw mode
    rawOps,          \* how many set/unset_raw_mode calls were made
    term,            \* the tokens written to stdout, in order
    flushed,         \* how many of them have been flushed
    stderr,          \* what was printed on standard error
    curSize,         \* the terminal's size now (rows)
    full_screen_ws,  \* the size read at startup (line 49), 0 before
    connected,       \* connect_to_server() was called
    toServer,        \* the ServerInstructions sent so far, in order
    conn,            \* ClientInstructions sent by the server, not yet received
    serverExited,    \* the server has sent Exit
    chan,            \* the instruction channel: <<instruction, producer>> items
    receiverAlive,   \* receive_client_instructions exists and was not dropped
    hookInstalled,   \* std::panic::set_hook was called
    gate,            \* command_is_executing: "blocked" or "unblocked"
    client_instruction, \* the instruction the main loop is handling
    consumed,        \* history: the channel items the main loop received
    stdinPc, sigPc, routerPc, \* where the three spawned threads are
    instruction,     \* the instruction the router holds
    routerRecvd,     \* history: the instructions the router received
    sigPending,      \* resize notifications not yet handled
    envEvents        \* how many environment events happened

vars == <<mainPc, exitCode, rawMode, rawOps, term, flushed, stderr, curSize,
          full_screen_ws, connected, toServer, conn, serverExited,
          chan, receiverAlive, hookInstalled, gate, client_instruction,
          consumed, stdinPc, sigPc, routerPc, instruction, routerRecvd,
          sigPending, envEvents>>

\* Groups of variables, for UNCHANGED.
termVars == <<rawMode, rawOps, term, flushed, stderr>>
serverVars == <<connected, toServer, conn, serverExited>>
chanVars == <<chan, receiverAlive, consumed>>
threadVars == <<stdinPc, sigPc, routerPc, instruction, routerRecvd>>
envVars == <<curSize, sigPending, envEvents>>
mainLocals == <<exitCode, full_screen_ws, hookInstalled, client_instruction>>

\* The process is running: an exited process takes no step.
Running == exitCode = NotExited

Init ==
    /\ mainPc = "unset_raw_mode"
    /\ exitCode = NotExited
    /\ rawMode = FALSE
    /\ rawOps = 0
    /\ term = <<>>
    /\ flushed = 0
    /\ stderr = <<>>
    /\ curSize \in InitialRows
    /\ full_screen_ws = 0
    /\ connected = FALSE
    /\ toServer = <<>>
    /\ conn = <<>>
    /\ serverExited = FALSE
    /\ chan = <<>>
    /\ receiverAlive = FALSE
    /\ hookInstalled = FALSE
    /\ gate = "unblocked"
    /\ client_instruction = Exit
    /\ consumed = <<>>
    /\ stdinPc = "unspawned"
    /\ sigPc = "unspawned"
    /\ routerPc = "unspawned"
    /\ instruction = Exit
    /\ routerRecvd = <<>>
    /\ sigPending = 0
    /\ envEvents = 0

(* ------------------------------------------------- main thread: startup *)

\* line 34: os_input.unset_raw_mode(0)
StartUnsetRawMode ==
    /\ Running /\ mainPc = "unset_raw_mode"
    /\ rawMode' = FALSE
    /\ rawOps' = rawOps + 1
    /\ mainPc' = "take_snapshot"
    /\ UNCHANGED <<exitCode, full_screen_ws, hookInstalled, client_instruction,
                   term, flushed, stderr, gate>>
    /\ UNCHANGED <<serverVars, chanVars, threadVars, envVars>>

\* lines 35-38: write the enter-alternate-screen sequence
StartTakeSnapshot ==
    /\ Running /\ mainPc = "take_snapshot"
    /\ term' = Append(term, take_snapshot)
    /\ mainPc' = "config"
    /\ UNCHANGED <<exitCode, full_screen_ws, hookInstalled, client_instruction,
                   rawMode, rawOps, flushed, stderr, gate>>
    /\ UNCHANGED <<serverVars, chanVars, threadVars, envVars>>

\* lines 40-45: Config::from_cli_config(opts.config) returns Ok
LoadConfigOk ==
    /\ Running /\ mainPc = "config"
    /\ mainPc' = "command_is_executing"
    /\ UNCHANGED <<exitCode, full_screen_ws, hookInstalled, client_instruction,
                   gate>>
    /\ UNCHANGED <<termVars, serverVars, chanVars, threadVars, envVars>>

\* lines 40-45: Config::from_cli_config returns Err: eprintln!, exit(1)
LoadConfigErr ==
    /\ Running /\ mainPc = "config"
    /\ stderr' = Append(stderr, "There was an error in the config file")
    /\ exitCode' = ExitFailure
    /\ mainPc' = "exited"
    /\ UNCHANGED <<full_screen_ws, hookInstalled, client_instruction, gate,
                   rawMode, rawOps, term, flushed>>
    /\ UNCHANGED <<serverVars, chanVars, threadVars, envVars>>

\* line 47: CommandIsExecuting::new()
NewCommandIsExecuting ==
    /\ Running /\ mainPc = "command_is_executing"
    /\ gate' = "unblocked"
    /\ mainPc' = "get_terminal_size"
    /\ UNCHANGED <<exitCode, full_screen_ws, hookInstalled, client_instruction>>
    /\ UNCHANGED <<termVars, serverVars, chanVars, threadVars, envVars>>

\* line 49: full_screen_ws = os_input.get_terminal_size_using_fd(0)
GetTerminalSize ==
    /\ Running /\ mainPc = "get_terminal_size"
    /\ full_screen_ws' = curSize
    /\ mainPc' = "connect_to_server"
    /\ UNCHANGED <<exitCode, hookInstalled, client_instruction, gate>>
    /\ UNCHANGED <<termVars, serverVars, chanVars, threadVars, envVars>>

\* line 50: os_input.connect_to_server()
ConnectToServer ==
    /\ Running /\ mainPc = "connect_to_server"
    /\ connected' = TRUE
    /\ mainPc' = "send_new_client"
    /\ UNCHANGED <<exitCode, full_screen_ws, hookInstalled, client_instruction,
                   gate, toServer, conn, serverExited>>
    /\ UNCHANGED <<termVars, chanVars, threadVars, envVars>>

\* SendNewClient without the send.
SendNewClient_NoSend ==
    /\ Running /\ mainPc = "send_new_client"
    /\ mainPc' = "set_raw_mode"
    /\ UNCHANGED <<exitCode, full_screen_ws, hookInstalled, client_instruction,
                   gate>>
    /\ UNCHANGED <<termVars, serverVars, chanVars, threadVars, envVars>>

\* line 51: os_input.send_to_server(ServerInstruction::NewClient(full_screen_ws))
SendNewClient ==
    /\ Running /\ mainPc = "send_new_client"
    /\ toServer' = Append(toServer, NewClient(full_screen_ws))
    /\ mainPc' = "set_raw_mode"
    /\ UNCHANGED <<exitCode, full_screen_ws, hookInstalled, client_instruction,
                   gate, connected, conn, serverExited>>
    /\ UNCHANGED <<termVars, chanVars, threadVars, envVars>>

\* line 52: os_input.set_raw_mode(0)
StartSetRawMode ==
    /\ Running /\ mainPc = "set_raw_mode"
    /\ rawMode' = TRUE
    /\ rawOps' = rawOps + 1
    /\ mainPc' = "sync_channel"
    /\ UNCHANGED <<exitCode, full_screen_ws, hookInstalled, client_instruction,
                   term, flushed, stderr, gate>>
    /\ UNCHANGED <<serverVars, chanVars, threadVars, envVars>>

\* lines 54-58: mpsc::sync_channel(500)
CreateChannel ==
    /\ Running /\ mainPc = "sync_channel"
    /\ chan' = <<>>
    /\ receiverAlive' = TRUE
    /\ mainPc' = "set_hook"
    /\ UNCHANGED <<exitCode, full_screen_ws, hookInstalled, client_instruction,
                   gate, consumed>>
    /\ UNCHANGED <<termVars, serverVars, threadVars, envVars>>

\* lines 60-67: std::panic::set_hook
SetPanicHook ==
    /\ Running /\ mainPc = "set_hook"
    /\ hookInstalled' = TRUE
    /\ mainPc' = "spawn_stdin"
    /\ UNCHANGED <<exitCode, full_screen_ws, client_instruction, gate>>
    /\ UNCHANGED <<termVars, serverVars, chanVars, threadVars, envVars>>

\* lines 69-83: spawn the stdin_handler thread
SpawnStdinThread ==
    /\ Running /\ mainPc = "spawn_stdin"
    /\ stdinPc' = "input_loop"
    /\ mainPc' = "spawn_signal"
    /\ UNCHANGED <<exitCode, full_screen_ws, hookInstalled, client_instruction,
                   gate, sigPc, routerPc, instruction, routerRecvd>>
    /\ UNCHANGED <<termVars, serverVars, chanVars, envVars>>

\* lines 85-100: spawn the signal_listener thread
SpawnSignalThread ==
    /\ Running /\ mainPc = "spawn_signal"
    /\ sigPc' = "receive_sigwinch"
    /\ mainPc' = "spawn_router"
    /\ UNCHANGED <<exitCode, full_screen_ws, hookInstalled, client_instruction,
                   gate, stdinPc, routerPc, instruction, routerRecvd>>
    /\ UNCHANGED <<termVars, serverVars, chanVars, envVars>>

\* lines 102-120: spawn the router thread
SpawnRouterThread ==
    /\ Running /\ mainPc = "spawn_router"
    /\ routerPc' = "recv_from_server"
    /\ mainPc' = "recv"
    /\ UNCHANGED <<exitCode, full_screen_ws, hookInstalled, client_instruction,
                   gate, stdinPc, sigPc, instruction, routerRecvd>>
    /\ UNCHANGED <<termVars, serverVars, chanVars, envVars>>

Startup ==
    \/ StartUnsetRawMode
    \/ StartTakeSnapshot
    \/ LoadConfigOk
    \/ LoadConfigErr
    \/ NewCommandIsExecuting
    \/ GetTerminalSize
    \/ ConnectToServer
    \/ SendNewClient
    \/ StartSetRawMode
    \/ CreateChannel
    \/ SetPanicHook
    \/ SpawnStdinThread
    \/ SpawnSignalThread
    \/ SpawnRouterThread

(* ----------------------------------------------- main thread: the loop *)

\* Range of a sequence.
Range(s) == {s[i] : i \in 1..Len(s)}

\* MatchArm with the Exit arm continuing the loop where the code breaks.
MatchArm_ExitContinues(ci) ==
    CASE ci.t = "Exit" -> "recv"
      [] ci.t = "Error" -> "error_send_client_exit"
      [] ci.t = "Render" ->
            IF ci.v = None THEN "send_client_exit" ELSE "write_all"
      [] ci.t = "UnblockInputThread" -> "unblock_input_thread"

\* MatchArm with Render(None) treated as an empty render: the loop goes on.
MatchArm_RenderNoneContinues(ci) ==
    CASE ci.t = "Exit" -> "send_client_exit"
      [] ci.t = "Error" -> "error_send_client_exit"
      [] ci.t = "Render" -> IF ci.v = None THEN "recv" ELSE "write_all"
      [] ci.t = "UnblockInputThread" -> "unblock_input_thread"

\* lines 131-161: the arm of the match that handles instruction ci, as the
\* place the main thread goes to next. Exit and Render(None) break out of
\* the loop to line 164.
MatchArm(ci) ==
    CASE ci.t = "Exit" -> "send_client_exit"
      [] ci.t = "Error" -> "error_send_client_exit"
      [] ci.t = "Render" ->
            IF ci.v = None THEN "send_client_exit" ELSE "write_all"
      [] ci.t = "UnblockInputThread" -> "unblock_input_thread"

\* OrchestratorRecv with the receive half owned by the loop: leaving the
\* loop drops it.
OrchestratorRecv_DropsOnBreak ==
    /\ Running /\ mainPc = "recv"
    /\ chan # <<>>
    /\ client_instruction' = Head(chan)[1]
    /\ consumed' = Append(consumed, Head(chan))
    /\ chan' = Tail(chan)
    /\ mainPc' = MatchArm(Head(chan)[1])
    /\ receiverAlive' = (Head(chan)[1].t \notin {"Exit", "Render"}
                          \/ Head(chan)[1].v \in Texts)
    /\ UNCHANGED <<exitCode, full_screen_ws, hookInstalled, gate>>
    /\ UNCHANGED <<termVars, serverVars, threadVars, envVars>>

\* lines 124-131: receive_client_instructions.recv() blocks while the
\* channel is empty, then the match picks the arm.
OrchestratorRecv ==
    /\ Running /\ mainPc = "recv"
    /\ chan # <<>>
    /\ client_instruction' = Head(chan)[1]
    /\ consumed' = Append(consumed, Head(chan))
    /\ chan' = Tail(chan)
    /\ mainPc' = MatchArm(Head(chan)[1])
    /\ UNCHANGED <<exitCode, full_screen_ws, hookInstalled, gate, receiverAlive>>
    /\ UNCHANGED <<termVars, serverVars, threadVars, envVars>>

\* lines 152-155: stdout.write_all(output)
RenderWriteAll ==
    /\ Running /\ mainPc = "write_all"
    /\ term' = Append(term, Text(client_instruction.v))
    /\ mainPc' = "flush"
    /\ UNCHANGED <<mainLocals, gate, rawMode, rawOps, flushed, stderr>>
    /\ UNCHANGED <<serverVars, chanVars, threadVars, envVars>>

\* RenderFlush without the flush: the text stays in the writer's buffer.
RenderFlush_NoFlush ==
    /\ Running /\ mainPc = "flush"
    /\ mainPc' = "recv"
    /\ UNCHANGED <<mainLocals, gate>>
    /\ UNCHANGED <<termVars, serverVars, chanVars, threadVars, envVars>>

\* line 156: stdout.flush()
RenderFlush ==
    /\ Running /\ mainPc = "flush"
    /\ flushed' = Len(term)
    /\ mainPc' = "recv"
    /\ UNCHANGED <<mainLocals, gate, rawMode, rawOps, term, stderr>>
    /\ UNCHANGED <<serverVars, chanVars, threadVars, envVars>>

\* UnblockInputThreadArm falling out of the loop, as the Exit arm does.
UnblockInputThreadArm_Breaks ==
    /\ Running /\ mainPc = "unblock_input_thread"
    /\ gate' = "unblocked"
    /\ mainPc' = "send_client_exit"
    /\ UNCHANGED mainLocals
    /\ UNCHANGED <<termVars, serverVars, chanVars, threadVars, envVars>>

\* lines 158-160: command_is_executing.unblock_input_thread()
UnblockInputThreadArm ==
    /\ Running /\ mainPc = "unblock_input_thread"
    /\ gate' = "unblocked"
    /\ mainPc' = "recv"
    /\ UNCHANGED mainLocals
    /\ UNCHANGED <<termVars, serverVars, chanVars, threadVars, envVars>>

(* ------------------------------------------ main thread: the Error arm *)

\* ErrorSendClientExit without the send.
ErrorSendClientExit_NoSend ==
    /\ Running /\ mainPc = "error_send_client_exit"
    /\ mainPc' = "error_unset_raw_mode"
    /\ UNCHANGED <<mainLocals, gate>>
    /\ UNCHANGED <<termVars, serverVars, chanVars, threadVars, envVars>>

\* line 134: os_input.send_to_server(ServerInstruction::ClientExit)
ErrorSendClientExit ==
    /\ Running /\ mainPc = "error_send_client_exit"
    /\ toServer' = Append(toServer, ClientExit)
    /\ mainPc' = "error_unset_raw_mode"
    /\ UNCHANGED <<mainLocals, gate, connected, conn, serverExited>>
    /\ UNCHANGED <<termVars, chanVars, threadVars, envVars>>

\* line 135: os_input.unset_raw_mode(0)
ErrorUnsetRawMode ==
    /\ Running /\ mainPc = "error_unset_raw_mode"
    /\ rawMode' = FALSE
    /\ rawOps' = rawOps + 1
    /\ mainPc' = "error_write"
    /\ UNCHANGED <<mainLocals, gate, term, flushed, stderr>>
    /\ UNCHANGED <<serverVars, chanVars, threadVars, envVars>>

\* lines 136-141: format!("{}\n{}{}", goto_start_of_last_line,
\* restore_snapshot, backtrace)
ErrorText(rows, backtrace) ==
    <<goto_start_of_last_line(rows), newline, restore_snapshot, Text(backtrace)>>

\* lines 136-145: write the error text to stdout
ErrorWrite ==
    /\ Running /\ mainPc = "error_write"
    /\ term' = term \o ErrorText(full_screen_ws, client_instruction.v)
    /\ mainPc' = "error_exit"
    /\ UNCHANGED <<mainLocals, gate, rawMode, rawOps, flushed, stderr>>
    /\ UNCHANGED <<serverVars, chanVars, threadVars, envVars>>

\* ErrorExit without the exit: the arm ends and the loop goes on.
ErrorExit_Missing ==
    /\ Running /\ mainPc = "error_exit"
    /\ mainPc' = "recv"
    /\ UNCHANGED <<mainLocals, gate>>
    /\ UNCHANGED <<termVars, serverVars, chanVars, threadVars, envVars>>

\* line 146: std::process::exit(1)
ErrorExit ==
    /\ Running /\ mainPc = "error_exit"
    /\ exitCode' = ExitFailure
    /\ mainPc' = "exited"
    /\ UNCHANGED <<full_screen_ws, hookInstalled, client_instruction, gate>>
    /\ UNCHANGED <<termVars, serverVars, chanVars, threadVars, envVars>>

(* ------------------------------------- main thread: the normal teardown *)

\* SendClientExit without the send.
SendClientExit_NoSend ==
    /\ Running /\ mainPc = "send_client_exit"
    /\ mainPc' = "join"
    /\ UNCHANGED <<mainLocals, gate>>
    /\ UNCHANGED <<termVars, serverVars, chanVars, threadVars, envVars>>

\* line 164: os_input.send_to_server(ServerInstruction::ClientExit)
SendClientExit ==
    /\ Running /\ mainPc = "send_client_exit"
    /\ toServer' = Append(toServer, ClientExit)
    /\ mainPc' = "join"
    /\ UNCHANGED <<mainLocals, gate, connected, conn, serverExited>>
    /\ UNCHANGED <<termVars, chanVars, threadVars, envVars>>

\* JoinRouter without the wait: the main thread goes on to the teardown
\* wherever the router is.
JoinRouter_NoWait ==
    /\ Running /\ mainPc = "join"
    /\ mainPc' = "unset_raw_mode_exit"
    /\ UNCHANGED <<mainLocals, gate>>
    /\ UNCHANGED <<termVars, serverVars, chanVars, threadVars, envVars>>

\* line 165: router_thread.join() blocks until the router thread has
\* finished; it returns Ok when the thread returned, and Err when it
\* panicked, which unwrap() turns into a panic of the main thread.
JoinRouter ==
    /\ Running /\ mainPc = "join"
    /\ routerPc \in {"returned", "dead"}
    /\ mainPc' = IF routerPc = "returned" THEN "unset_raw_mode_exit" ELSE "panic_hook"
    /\ UNCHANGED <<mainLocals, gate>>
    /\ UNCHANGED <<termVars, serverVars, chanVars, threadVars, envVars>>

\* line 177: os_input.unset_raw_mode(0)
TeardownUnsetRawMode ==
    /\ Running /\ mainPc = "unset_raw_mode_exit"
    /\ rawMode' = FALSE
    /\ rawOps' = rawOps + 1
    /\ mainPc' = "write_goodbye"
    /\ UNCHANGED <<mainLocals, gate, term, flushed, stderr>>
    /\ UNCHANGED <<serverVars, chanVars, threadVars, envVars>>

\* goodbye_message with the row read from the terminal when the message is
\* built, not the one captured at startup.
goodbye_message_CurrentSize(rows) ==
    <<goto_start_of_last_line(curSize), newline, restore_snapshot, reset_style,
      show_cursor, goodbye_text>>

\* lines 168-175: format!("{}\n{}{}{}Bye from Zellij!\n", ...)
goodbye_message(rows) ==
    <<goto_start_of_last_line(rows), newline, restore_snapshot, reset_style,
      show_cursor, goodbye_text>>

\* lines 178-179: stdout.write(goodbye_message)
WriteGoodbye ==
    /\ Running /\ mainPc = "write_goodbye"
    /\ term' = term \o goodbye_message(full_screen_ws)
    /\ mainPc' = "flush_goodbye"
    /\ UNCHANGED <<mainLocals, gate, rawMode, rawOps, flushed, stderr>>
    /\ UNCHANGED <<serverVars, chanVars, threadVars, envVars>>

\* line 180: stdout.flush()
FlushGoodbye ==
    /\ Running /\ mainPc = "flush_goodbye"
    /\ flushed' = Len(term)
    /\ mainPc' = "return"
    /\ UNCHANGED <<mainLocals, gate, rawMode, rawOps, term, stderr>>
    /\ UNCHANGED <<serverVars, chanVars, threadVars, envVars>>

\* line 181: start_client returns; its locals, the receive half of the
\* channel among them, are dropped.
ReturnFromStartClient ==
    /\ Running /\ mainPc = "return"
    /\ receiverAlive' = FALSE
    /\ mainPc' = "returned"
    /\ UNCHANGED <<mainLocals, gate, chan, consumed>>
    /\ UNCHANGED <<termVars, serverVars, threadVars, envVars>>

\* The caller of start_client returns from main: the process exits with
\* status 0 and its other threads end with it.
ProcessExitOk ==
    /\ Running /\ mainPc = "returned"
    /\ exitCode' = ExitOk
    /\ mainPc' = "exited"
    /\ UNCHANGED <<full_screen_ws, hookInstalled, client_instruction, gate>>
    /\ UNCHANGED <<termVars, serverVars, chanVars, threadVars, envVars>>

(* --------------------------------------------------------- the panic hook *)

\* handle_panic (crate::errors, called by the hook of lines 61-67) on the
\* panicking thread: it sends Error(backtrace) on the instruction channel.
\* The send blocks while the channel is full; with the receiver dropped
\* nothing is enqueued.
HandlePanic(thread) ==
    /\ Len(chan) < ChannelCapacity
    /\ chan' = IF receiverAlive
               THEN Append(chan, <<Error("panic in " \o thread), "panic hook">>)
               ELSE chan

\* The main thread panicked (line 165): the hook runs on it.
MainPanicHook ==
    /\ Running /\ mainPc = "panic_hook"
    /\ hookInstalled
    /\ HandlePanic("main")
    /\ mainPc' = "unwinding"
    /\ UNCHANGED <<mainLocals, gate, receiverAlive, consumed>>
    /\ UNCHANGED <<termVars, serverVars, threadVars, envVars>>

\* The panicking main thread unwinds, dropping the receiver, and the
\* process exits with status 101.
MainUnwind ==
    /\ Running /\ mainPc = "unwinding"
    /\ receiverAlive' = FALSE
    /\ exitCode' = ExitPanic
    /\ mainPc' = "exited"
    /\ UNCHANGED <<full_screen_ws, hookInstalled, client_instruction, gate,
                   chan, consumed>>
    /\ UNCHANGED <<termVars, serverVars, threadVars, envVars>>

MainStep ==
    \/ Startup
    \/ OrchestratorRecv
    \/ RenderWriteAll
    \/ RenderFlush
    \/ UnblockInputThreadArm
    \/ ErrorSendClientExit
    \/ ErrorUnsetRawMode
    \/ ErrorWrite
    \/ ErrorExit
    \/ SendClientExit
    \/ JoinRouter
    \/ TeardownUnsetRawMode
    \/ WriteGoodbye
    \/ FlushGoodbye
    \/ ReturnFromStartClient
    \/ ProcessExitOk
    \/ MainPanicHook
    \/ MainUnwind

(* ------------------------------------------------------ the router thread *)

\* RouterRecvArm with the thread returning on Exit without the send of
\* lines 115-117.
RouterRecvArm_NoFinalSend(ins) ==
    IF ins.t = "Exit" THEN "returned" ELSE "send"

\* RouterRecvArm without the test of lines 110-112: Exit is forwarded like
\* any other instruction and the loop goes on.
RouterRecvArm_ForwardsExit(ins) == "send"

\* lines 108-112: os_input.recv_from_server() blocks until the server has
\* sent an instruction; Exit breaks out of the loop (to line 115), any other
\* instruction goes on to the send of line 113.
RouterRecvArm(ins) ==
    IF ins.t = "Exit" THEN "send_exit" ELSE "send"

RouterRecv ==
    /\ Running /\ routerPc = "recv_from_server"
    /\ conn # <<>>
    /\ instruction' = Head(conn)
    /\ routerRecvd' = Append(routerRecvd, Head(conn))
    /\ conn' = Tail(conn)
    /\ routerPc' = RouterRecvArm(Head(conn))
    /\ UNCHANGED <<mainPc, mainLocals, gate, stdinPc, sigPc>>
    /\ UNCHANGED <<connected, toServer, serverExited>>
    /\ UNCHANGED <<termVars, chanVars, envVars>>

\* RouterChannelSend as a try_send: a full channel drops the item.
RouterChannelSend_DropWhenFull(ins, thenPc) ==
    /\ chan' = IF Len(chan) < ChannelCapacity
               THEN Append(chan, <<ins, "router">>)
               ELSE chan
    /\ routerPc' = thenPc

\* SyncSender::send of one item by the router: it blocks while the channel
\* is full; with the receiver dropped it returns Err and the unwrap() of
\* lines 113 and 117 panics.
RouterChannelSend(ins, thenPc) ==
    /\ Len(chan) < ChannelCapacity
    /\ IF receiverAlive
       THEN /\ chan' = Append(chan, <<ins, "router">>)
            /\ routerPc' = thenPc
       ELSE /\ chan' = chan
            /\ routerPc' = "panic_hook"

\* line 113: send_client_instructions.send(instruction).unwrap()
RouterSend ==
    /\ Running /\ routerPc = "send"
    /\ RouterChannelSend(instruction, "recv_from_server")
    /\ UNCHANGED <<mainPc, mainLocals, gate, stdinPc, sigPc, instruction,
                   routerRecvd, receiverAlive, consumed>>
    /\ UNCHANGED <<termVars, serverVars, envVars>>

\* lines 115-117: send_client_instructions.send(ClientInstruction::Exit)
\* .unwrap(), after which the thread returns
RouterSendExit ==
    /\ Running /\ routerPc = "send_exit"
    /\ RouterChannelSend(Exit, "returned")
    /\ UNCHANGED <<mainPc, mainLocals, gate, stdinPc, sigPc, instruction,
                   routerRecvd, receiverAlive, consumed>>
    /\ UNCHANGED <<termVars, serverVars, envVars>>

\* line 108: recv_from_server() panics (it returns no Result: a failure of
\* the connection can only surface as a panic of the router thread).
RouterPanic ==
    /\ Running /\ routerPc = "recv_from_server"
    /\ envEvents < MaxEnvEvents
    /\ envEvents' = envEvents + 1
    /\ routerPc' = "panic_hook"
    /\ UNCHANGED <<mainPc, mainLocals, gate, stdinPc, sigPc, instruction,
                   routerRecvd, curSize, sigPending>>
    /\ UNCHANGED <<termVars, serverVars, chanVars>>

\* The hook runs on the panicking router thread, then the thread is gone.
RouterPanicHook ==
    /\ Running /\ routerPc = "panic_hook"
    /\ hookInstalled
    /\ HandlePanic("router")
    /\ routerPc' = "dead"
    /\ UNCHANGED <<mainPc, mainLocals, gate, stdinPc, sigPc, instruction,
                   routerRecvd, receiverAlive, consumed>>
    /\ UNCHANGED <<termVars, serverVars, envVars>>

RouterStep ==
    \/ RouterRecv
    \/ RouterSend
    \/ RouterSendExit
    \/ RouterPanicHook

(* ------------------------------------------------- the stdin_handler thread *)

\* lines 76-81: the user types a command and input_loop dispatches it: it
\* waits until the gate is unblocked and blocks it again.
StdinDispatch ==
    /\ Running /\ stdinPc = "input_loop"
    /\ envEvents < MaxEnvEvents
    /\ envEvents' = envEvents + 1
    /\ gate = "unblocked"
    /\ gate' = "blocked"
    /\ UNCHANGED <<mainPc, mainLocals, curSize, sigPending>>
    /\ UNCHANGED <<termVars, serverVars, chanVars, threadVars>>

\* lines 76-81: input_loop panics
StdinPanic ==
    /\ Running /\ stdinPc = "input_loop"
    /\ envEvents < MaxEnvEvents
    /\ envEvents' = envEvents + 1
    /\ stdinPc' = "panic_hook"
    /\ UNCHANGED <<mainPc, mainLocals, gate, sigPc, routerPc, instruction,
                   routerRecvd, curSize, sigPending>>
    /\ UNCHANGED <<termVars, serverVars, chanVars>>

\* The hook runs on the panicking stdin_handler thread.
StdinPanicHook ==
    /\ Running /\ stdinPc = "panic_hook"
    /\ hookInstalled
    /\ HandlePanic("stdin_handler")
    /\ stdinPc' = "dead"
    /\ UNCHANGED <<mainPc, mainLocals, gate, sigPc, routerPc, instruction,
                   routerRecvd, receiverAlive, consumed>>
    /\ UNCHANGED <<termVars, serverVars, envVars>>

(* ----------------------------------------------- the signal_listener thread *)

\* The terminal is resized; the listener, once it runs, is notified.
TerminalResized ==
    /\ Running
    /\ envEvents < MaxEnvEvents
    /\ \E ws \in Rows \ {curSize} : curSize' = ws
    /\ envEvents' = envEvents + 1
    /\ sigPending' = IF sigPc = "receive_sigwinch" THEN sigPending + 1
                     ELSE sigPending
    /\ UNCHANGED <<mainPc, mainLocals, gate>>
    /\ UNCHANGED <<termVars, serverVars, chanVars, threadVars>>

\* lines 90-97: the callback given to receive_sigwinch sends
\* TerminalResize(get_terminal_size_using_fd(0)) to the server
SigwinchCallback ==
    /\ Running /\ sigPc = "receive_sigwinch"
    /\ sigPending > 0
    /\ sigPending' = sigPending - 1
    /\ toServer' = Append(toServer, TerminalResize(curSize))
    /\ UNCHANGED <<mainPc, mainLocals, gate, curSize, envEvents>>
    /\ UNCHANGED <<connected, conn, serverExited>>
    /\ UNCHANGED <<termVars, chanVars, threadVars>>

\* line 90: receive_sigwinch panics
SignalPanic ==
    /\ Running /\ sigPc = "receive_sigwinch"
    /\ envEvents < MaxEnvEvents
    /\ envEvents' = envEvents + 1
    /\ sigPc' = "panic_hook"
    /\ UNCHANGED <<mainPc, mainLocals, gate, stdinPc, routerPc, instruction,
                   routerRecvd, curSize, sigPending>>
    /\ UNCHANGED <<termVars, serverVars, chanVars>>

\* The hook runs on the panicking signal_listener thread.
SignalPanicHook ==
    /\ Running /\ sigPc = "panic_hook"
    /\ hookInstalled
    /\ HandlePanic("signal_listener")
    /\ sigPc' = "dead"
    /\ UNCHANGED <<mainPc, mainLocals, gate, stdinPc, routerPc, instruction,
                   routerRecvd, receiverAlive, consumed>>
    /\ UNCHANGED <<termVars, serverVars, envVars>>

(* ---------------------------------------------------------------- the server *)

\* The server, once the client has introduced itself, sends an instruction
\* of its own accord; after Exit it sends nothing more.
ServerEmit ==
    /\ Running
    /\ connected /\ toServer # <<>>
    /\ ~serverExited
    /\ envEvents < MaxEnvEvents
    /\ \E ins \in ServerAlphabet :
          /\ conn' = Append(conn, ins)
          /\ serverExited' = (ins = Exit)
    /\ envEvents' = envEvents + 1
    /\ UNCHANGED <<mainPc, mainLocals, gate, connected, toServer>>
    /\ UNCHANGED <<curSize, sigPending>>
    /\ UNCHANGED <<termVars, chanVars, threadVars>>

\* The server answers ClientExit with Exit.
ServerAnswerExit ==
    /\ Running
    /\ ClientExit \in Range(toServer)
    /\ ~serverExited
    /\ conn' = Append(conn, Exit)
    /\ serverExited' = TRUE
    /\ UNCHANGED <<mainPc, mainLocals, gate, connected, toServer>>
    /\ UNCHANGED <<termVars, chanVars, threadVars, envVars>>

(* ------------------------------------------------------------ specification *)

Next ==
    \/ MainStep
    \/ RouterStep
    \/ RouterPanic
    \/ StdinDispatch
    \/ StdinPanic
    \/ StdinPanicHook
    \/ TerminalResized
    \/ SigwinchCallback
    \/ SignalPanic
    \/ SignalPanicHook
    \/ ServerEmit
    \/ ServerAnswerExit

Spec == Init /\ [][Next]_vars

\* Every thread that can take a step eventually takes one, and the server
\* eventually answers ClientExit. Nothing obliges a thread to panic, the
\* terminal to be resized, the user to type or the server to speak first.
FairSpec ==
    /\ Spec
    /\ WF_vars(MainStep)
    /\ WF_vars(RouterStep)
    /\ WF_vars(StdinPanicHook)
    /\ WF_vars(SigwinchCallback)
    /\ WF_vars(SignalPanicHook)
    /\ WF_vars(ServerAnswerExit)

(* ------------------------------------------------- vocabulary of the claims *)

Last(s) == s[Len(s)]

\* How many times x occurs in sequence s.
Count(s, x) == Cardinality({i \in 1..Len(s) : s[i] = x})

\* The terminal instructions: Error, Render(None), Exit.
IsTerminal(ci) ==
    \/ ci.t = "Exit"
    \/ ci.t = "Error"
    \/ ci.t = "Render" /\ ci.v = None

\* Positions of the main thread: before the loop, in the loop (the
\* Orchestrator's state Running), in the Error arm, in the normal teardown.
StartupPcs ==
    {"unset_raw_mode", "take_snapshot", "config", "command_is_executing",
     "get_terminal_size", "connect_to_server", "send_new_client",
     "set_raw_mode", "sync_channel", "set_hook", "spawn_stdin",
     "spawn_signal", "spawn_router"}
LoopPcs == {"recv", "write_all", "flush", "unblock_input_thread"}
ErrorPcs == {"error_send_client_exit", "error_unset_raw_mode", "error_write",
             "error_exit"}
TeardownPcs == {"send_client_exit", "join", "unset_raw_mode_exit",
                "write_goodbye", "flush_goodbye", "return", "returned"}

\* The main loop has consumed a terminal instruction.
ConsumedTerminal == consumed # <<>> /\ IsTerminal(Last(consumed)[1])

\* The last instruction the main loop consumed was Exit or Render(None).
ConsumedNormalEnd ==
    /\ ConsumedTerminal
    /\ Last(consumed)[1].t \in {"Exit", "Render"}

\* The last instruction the main loop consumed was an Error.
ConsumedError == consumed # <<>> /\ Last(consumed)[1].t = "Error"

\* The process exited from the Error arm (line 146).
ExitedByError == exitCode = ExitFailure /\ ConsumedError

\* Some thread has panicked.
Panicked ==
    \/ stdinPc \in {"panic_hook", "dead"}
    \/ sigPc \in {"panic_hook", "dead"}
    \/ routerPc \in {"panic_hook", "dead"}
    \/ mainPc \in {"panic_hook", "unwinding"}
    \/ exitCode = ExitPanic

\* The goodbye banner is on the terminal.
GoodbyeWritten == goodbye_text \in Range(term)

(* ------------------------------------------------------------------- claims *)

\* C1 (as claimed): whenever the main loop consumes Exit or Render(None),
\* the client sends exactly one ClientExit and eventually completes the
\* normal teardown (router joined, goodbye written) and exits with status 0,
\* given fair scheduling and a server that answers ClientExit with Exit.
\* It is stated here for the runs in which no thread panics, the reading
\* most favourable to the claim: a run in which a thread panics is let off.
C1_TerminationCompleteness ==
    (mainPc = "send_client_exit" /\ ~Panicked)
        ~> (\/ Panicked
            \/ /\ exitCode = ExitOk
               /\ Count(toServer, ClientExit) = 1
               /\ routerPc = "returned"
               /\ GoodbyeWritten)

\* C2 (as claimed): every Error put on the instruction channel results in
\* the process exiting with status 1, a ClientExit sent and the terminal
\* restored with the message written, whatever preceded it in the channel.
\* Read at the end of the run, and for the runs in which no thread panics
\* (the Errors are then the server's): a process that has exited with an
\* Error ever put on the channel has exited this way, for one of those
\* Errors.
ErrorsPut ==
    {item[1] : item \in {x \in Range(consumed) \cup Range(chan) : x[1].t = "Error"}}

ErrorTextWritten(backtrace) ==
    /\ Len(term) >= 4
    /\ SubSeq(term, Len(term) - 3, Len(term))
         = ErrorText(full_screen_ws, backtrace)

C2_ErrorPrecedence ==
    (exitCode # NotExited /\ ErrorsPut # {} /\ ~Panicked)
        => /\ exitCode = ExitFailure
           /\ ClientExit \in Range(toServer)
           /\ ~rawMode
           /\ \E e \in ErrorsPut : ErrorTextWritten(e.v)

\* C2 (amended): every Error the main loop consumes, whatever non-terminal
\* instructions it consumed before, results in the process exiting with
\* status 1, after a ClientExit was sent and the terminal restored (raw mode
\* unset, cursor moved to the last row, alternate screen left) with the
\* message written. An Error behind an Exit or Render(None) is not consumed.
C2_ConsumedErrorPrecedence ==
    /\ [](ConsumedError /\ exitCode # NotExited
            => /\ exitCode = ExitFailure
               /\ Count(toServer, ClientExit) = 1
               /\ ~rawMode
               /\ ErrorTextWritten(Last(consumed)[1].v))
    /\ (ConsumedError ~> ExitedByError)

\* C2's case: the process exited from the Error arm after the loop had
\* consumed other instructions before the Error.
C2_Witness ==
    /\ ExitedByError
    /\ Len(consumed) >= 2

\* C3 (as claimed): a panic of any thread at any time becomes an Error that
\* the main loop consumes, so that the process takes the Error shutdown path
\* (terminal restored, exit status 1). Read at the end of the run, in the
\* form most favourable to the claim: a process that has exited after a
\* thread panicked has restored the terminal, and has exited with status 1
\* or, the normal teardown being under way already, with status 0.
C3_PanicFunnelling ==
    (exitCode # NotExited /\ Panicked)
        => /\ exitCode \in {ExitFailure, ExitOk}
           /\ ~rawMode
           /\ restore_snapshot \in Range(term)

\* C4: once the server has emitted Exit, or the router has failed on its
\* connection, the main loop eventually consumes a terminal instruction and
\* leaves the loop; it does not wait forever on the channel.
C4_TerminalDelivered ==
    (serverExited \/ routerPc \in {"panic_hook", "dead"})
        ~> (ConsumedTerminal /\ mainPc \notin LoopPcs)

\* C4's case: the server emitted Exit and the Exit that the router sent for
\* it is the terminal instruction the main loop consumed.
C4_Witness ==
    /\ serverExited
    /\ ConsumedTerminal
    /\ Last(consumed) = <<Exit, "router">>

\* C5 (as claimed): once the main loop has consumed Error, Render(None) or
\* Exit, the loop has exited, it consumes nothing further and no producer
\* sends on the channel any more. The steps looked at are those of the runs
\* in which no thread has panicked, so that the producer is the router.
C5_LastInstruction ==
    /\ [](ConsumedTerminal => mainPc \notin LoopPcs)
    /\ [][(ConsumedTerminal /\ ~Panicked')
            => (consumed' = consumed /\ chan' = chan)]_vars

\* C5 (amended): the main loop consumes at most one terminal instruction
\* and it is the last instruction it consumes: once it has consumed one, the
\* loop has exited and it consumes nothing further, and it leaves the loop
\* in no other way. The producers may still send: what the router and the
\* panic hook send after that stays in the channel.
C5_LastConsumed ==
    /\ [](ConsumedTerminal => mainPc \notin StartupPcs \cup LoopPcs)
    /\ [](mainPc \in ErrorPcs \cup TeardownPcs => ConsumedTerminal)
    /\ [](\A i \in 1..Len(consumed) :
             IsTerminal(consumed[i][1]) => i = Len(consumed))
    /\ [][ConsumedTerminal => consumed' = consumed]_vars

\* C5's case: the process has exited after the loop consumed a terminal
\* instruction, with instructions sent after it left in the channel.
C5_Witness ==
    /\ ConsumedTerminal
    /\ exitCode # NotExited
    /\ chan # <<>>

\* C6: ClientExit is sent at most once; not before the main loop has left
\* the state Running; and exactly once by the time the process exits with
\* status 0 or from the Error arm with status 1.
C6_ClientExitOnce ==
    /\ Count(toServer, ClientExit) <= 1
    /\ mainPc \in StartupPcs \cup LoopPcs => Count(toServer, ClientExit) = 0
    /\ (exitCode = ExitOk \/ ExitedByError) => Count(toServer, ClientExit) = 1

\* C6's case: the process has exited on the normal path.
C6_Witness ==
    /\ exitCode = ExitOk
    /\ ClientExit \in Range(toServer)

\* The cursor is visible: the last thing written that shows or hides the
\* cursor, if any, shows it.
CursorVisible ==
    LET marks == {i \in 1..Len(term) : term[i] \in {show_cursor, Text("hide")}}
    IN  \A i \in marks : (\A j \in marks : j <= i) => term[i] = show_cursor

\* C7 (as claimed): when the process exits from the Error arm, raw mode is
\* off, the leave-alternate-screen sequence has been written, the cursor is
\* visible, and the message comes after the cursor-to-last-row sequence.
C7_TerminalUsableOnFailure ==
    ExitedByError
        => /\ ~rawMode
           /\ restore_snapshot \in Range(term)
           /\ ErrorTextWritten(Last(consumed)[1].v)
           /\ CursorVisible

\* C8 (as claimed): when loading the configuration fails, the process exits
\* with status 1 before any terminal takeover: the enter-alternate-screen
\* sequence has not been written and raw mode has not been touched.
C8_ConfigFailureBeforeTakeover ==
    (exitCode # NotExited /\ stderr # <<>>)
        => /\ exitCode = ExitFailure
           /\ take_snapshot \notin Range(term)
           /\ rawOps = 0

\* C9: once the main loop has consumed Error, the main thread stays in the
\* Error arm until the process exits with status 1: it does not join the
\* router and does not write the goodbye banner, and so it reaches the exit
\* whatever the router is blocked on.
C9_ErrorBypassesTeardown ==
    /\ [][(mainPc \in ErrorPcs) => (mainPc' \in ErrorPcs \cup {"exited"})]_vars
    /\ [](ExitedByError => ~GoodbyeWritten)
    /\ (mainPc \in ErrorPcs ~> ExitedByError)

\* C9's case: the process has exited from the Error arm while the router is
\* blocked on the full channel.
C9_Witness ==
    /\ ExitedByError
    /\ routerPc \in {"send", "send_exit"}
    /\ Len(chan) = ChannelCapacity

\* The instructions of the items of s that the router produced.
FromRouter(s) ==
    LET r == SelectSeq(s, LAMBDA item : item[2] = "router")
    IN  [i \in 1..Len(r) |-> r[i][1]]

\* The instruction the router has received and not yet sent.
RouterInFlight ==
    IF routerPc \in {"send", "send_exit"} THEN <<instruction>> ELSE <<>>

\* C10: the channel never holds more than its capacity; a router at a send
\* can complete it exactly when the channel is not full; and nothing the
\* router received is lost, duplicated or reordered: what the main loop
\* consumed from the router, then what the channel holds from it, then what
\* it is about to send, is what it received from the server, in order.
C10_BackpressureFifo ==
    /\ Len(chan) <= ChannelCapacity
    /\ (Running /\ routerPc \in {"send", "send_exit"})
          => (ENABLED RouterStep <=> Len(chan) < ChannelCapacity)
    /\ FromRouter(consumed) \o FromRouter(chan) \o RouterInFlight = routerRecvd

\* C10's case: the router is blocked at a send on the full channel, holding
\* an instruction, while the main loop runs.
C10_Witness ==
    /\ Running
    /\ routerPc = "send"
    /\ Len(FromRouter(chan)) = ChannelCapacity
    /\ Len(routerRecvd) = ChannelCapacity + 1
    /\ instruction = Last(routerRecvd)
    /\ mainPc \in LoopPcs

\* The payloads of the Render(Some(text)) instructions among the items of s,
\* in order, as the tokens their write puts on the terminal.
RenderPayloads(s) ==
    LET r == SelectSeq(s, LAMBDA item : item[1].t = "Render" /\ item[1].v # None)
    IN  [i \in 1..Len(r) |-> Text(r[i][1].v)]

\* The payloads the main loop has written: those it consumed, but for the
\* one it is about to write.
RenderWritten ==
    LET p == RenderPayloads(consumed)
    IN  IF mainPc = "write_all" THEN SubSeq(p, 1, Len(p) - 1) ELSE p

\* C11: while the main loop runs, what the terminal has received after the
\* enter-alternate-screen sequence is exactly the payloads of the
\* Render(Some(text)) instructions consumed, whole and in consumption order;
\* and each is flushed before the next is written: when a payload is about
\* to be written or an instruction to be received, everything written for
\* the earlier payloads is flushed, and at the flush only the payload just
\* written is not.
C11_WriteOrdering ==
    mainPc \in LoopPcs
        => /\ term = <<take_snapshot>> \o RenderWritten
           /\ (mainPc # "flush" /\ RenderWritten # <<>>) => flushed = Len(term)
           /\ mainPc = "flush"
                 => /\ RenderWritten # <<>>
                    /\ Last(term) = Text(client_instruction.v)
                    /\ flushed < Len(term)
                    /\ Len(RenderWritten) > 1 => flushed = Len(term) - 1

\* C11's case: the loop has consumed Render(Some(a)) then Render(Some(b))
\* with a # b, and both are on the terminal, flushed, a before b.
C11_Witness ==
    /\ mainPc = "recv"
    /\ Len(term) = 3
    /\ term[2] \in {Text(x) : x \in Texts}
    /\ term[3] \in {Text(x) : x \in Texts}
    /\ term[2] # term[3]
    /\ flushed = 3

\* C12: consuming UnblockInputThread takes the main thread to the arm of
\* lines 158-160 and from there back to the recv of the loop, each time: the
\* two steps write nothing to the terminal, leave raw mode alone, send
\* nothing to the server and do not end the process; after the arm the gate
\* is unblocked, whether it was blocked or already unblocked before.
C12_GateIdempotence ==
    /\ [][(mainPc = "recv" /\ mainPc' # mainPc
             /\ Head(chan)[1] = UnblockInputThread)
            => /\ mainPc' = "unblock_input_thread"
               /\ <<term, flushed, rawMode, toServer, exitCode, gate>>'
                     = <<term, flushed, rawMode, toServer, exitCode, gate>>]_vars
    /\ [][(mainPc = "unblock_input_thread" /\ mainPc' # mainPc)
            => /\ mainPc' = "recv"
               /\ gate' = "unblocked"
               /\ <<term, flushed, rawMode, toServer, exitCode>>'
                     = <<term, flushed, rawMode, toServer, exitCode>>]_vars
    /\ [](mainPc = "unblock_input_thread"
            => Running /\ client_instruction = UnblockInputThread)

\* C12's case: the loop has consumed UnblockInputThread twice in a row, the
\* second with the gate already unblocked (the user typed nothing: both
\* events of the run are the server's), and is back at the recv.
C12_Witness ==
    /\ Running /\ mainPc = "recv"
    /\ Len(consumed) = 2
    /\ consumed[1][1] = UnblockInputThread
    /\ consumed[2][1] = UnblockInputThread
    /\ envEvents = 2
    /\ gate = "unblocked"

\* The terminal was taken over: the enter-alternate-screen sequence was
\* written.
TakenOver == take_snapshot \in Range(term)

\* C13 (as claimed): in every execution in which the process exits after
\* the takeover, the leave-alternate-screen sequence has been written
\* exactly once; and every write to stdout is a step of the main thread
\* (the router and the signal listener never write).
C13_SingleRestoration ==
    /\ []((exitCode # NotExited /\ TakenOver)
            => Count(term, restore_snapshot) = 1)
    /\ [][(term' # term \/ flushed' # flushed)
            => (mainPc' # mainPc
                /\ <<stdinPc, sigPc, routerPc, sigPending, instruction>>'
                      = <<stdinPc, sigPc, routerPc, sigPending, instruction>>)]_vars

\* How many Exit instructions the router has put on the channel.
RouterExitsEnqueued == Count(FromRouter(consumed \o chan), Exit)

\* C14 (as claimed): the router forwards the server's Exit and then sends
\* its own, so that once it has returned two Exit instructions have been
\* enqueued by it.
C14_ExitDoubleSend ==
    routerPc = "returned" => RouterExitsEnqueued = 2

\* C14 (amended): when the router receives Exit from the server it leaves
\* its loop without forwarding it (lines 110-112), receives nothing further,
\* sends one Exit of its own (lines 115-117) and returns: one Exit is
\* enqueued for one server Exit, none before the router has received it.
C14_ExitSingleSend ==
    /\ [][(routerPc = "recv_from_server" /\ routerRecvd' # routerRecvd
             /\ Head(conn) = Exit)
            => (routerPc' = "send_exit" /\ chan' = chan)]_vars
    /\ [][(routerPc \in {"send_exit", "returned"})
            => (routerRecvd' = routerRecvd
                /\ routerPc' \in {routerPc, "returned"})]_vars
    /\ [][(routerPc = "send_exit" /\ routerPc' # routerPc)
            => chan' = Append(chan, <<Exit, "router">>)]_vars
    /\ [](routerPc = "returned" => RouterExitsEnqueued = 1)
    /\ [](routerPc # "returned" => RouterExitsEnqueued = 0)
    /\ [](routerPc \in {"send_exit", "returned"}
            => Last(routerRecvd) = Exit /\ Count(routerRecvd, Exit) = 1)

\* C14's case: the router received the server's Exit after another
\* instruction, has returned, and the main loop consumed its one Exit.
C14_Witness ==
    /\ routerPc = "returned"
    /\ Len(routerRecvd) >= 2
    /\ consumed # <<>>
    /\ Last(consumed) = <<Exit, "router">>
    /\ RouterExitsEnqueued = 1

\* Positions of the main thread after router_thread.join() has returned Ok.
AfterJoinPcs == {"unset_raw_mode_exit", "write_goodbye", "flush_goodbye",
                 "return", "returned"}

\* C15: on the normal path ClientExit has been sent when the main thread
\* waits for the router; the main thread is past the join only when the
\* router thread has returned; from leaving the loop until the join returns
\* nothing is written to the terminal and raw mode is left alone; and the
\* goodbye is written after raw mode was unset, as cursor-to-row, newline,
\* ESC[?1049l, ESC[m, ESC[?25h, goodbye text, at the end of the output.
C15_TeardownOrdering ==
    /\ [](mainPc \in {"join"} \cup AfterJoinPcs
            => Count(toServer, ClientExit) = 1)
    /\ [](mainPc \in AfterJoinPcs => routerPc = "returned")
    /\ [][(mainPc \in {"send_client_exit", "join"})
            => <<term, flushed, rawMode>>' = <<term, flushed, rawMode>>]_vars
    /\ [](mainPc = "write_goodbye" => ~rawMode /\ ~GoodbyeWritten)
    /\ [](GoodbyeWritten
            => /\ routerPc = "returned"
               /\ ~rawMode
               /\ SubSeq(term, Len(term) - 5, Len(term))
                     = goodbye_message(full_screen_ws))

\* C15's case: the normal teardown has run to its end: the router has
\* returned, the goodbye is written and flushed.
C15_Witness ==
    /\ mainPc = "return"
    /\ routerPc = "returned"
    /\ GoodbyeWritten
    /\ flushed = Len(term)

\* Some satellite thread (stdin_handler, signal_listener, router) was
\* spawned.
SatelliteStarted ==
    \/ stdinPc # "unspawned"
    \/ sigPc # "unspawned"
    \/ routerPc # "unspawned"

\* C16: the first instruction the server is sent is NewClient with the size
\* read at startup, and no other NewClient follows; at the step that sends
\* it the alternate screen has been entered, the size queried and the
\* connection made, raw mode is still off and no satellite thread exists;
\* raw mode is on only after it; and a satellite thread exists only after
\* it, after raw mode was re-enabled and with the panic hook installed.
C16_StartupOrdering ==
    /\ [](toServer # <<>>
            => /\ toServer[1] = NewClient(full_screen_ws)
               /\ \A i \in 2..Len(toServer) : toServer[i].t # "NewClient")
    /\ [][(toServer = <<>> /\ toServer' # <<>>)
            => /\ TakenOver
               /\ full_screen_ws \in Rows
               /\ connected
               /\ ~rawMode /\ rawOps = 1
               /\ ~SatelliteStarted /\ ~SatelliteStarted']_vars
    /\ [](rawMode => toServer # <<>>)
    /\ [](SatelliteStarted
            => hookInstalled /\ toServer # <<>> /\ rawOps >= 2)

\* C16's case: the threads run, the terminal was resized, and the
\* TerminalResize reached the server behind NewClient.
C16_Witness ==
    /\ SatelliteStarted
    /\ Len(toServer) >= 2
    /\ toServer[1].t = "NewClient"
    /\ toServer[2].t = "TerminalResize"

\* The rows of the cursor-to-row sequences written to the terminal.
GotoRowsWritten ==
    {term[i].r : i \in {j \in 1..Len(term) : term[j].k = "ESC[{rows};1H"}}

\* What makes up the state of the main thread and what it has done to the
\* terminal and the channel.
OrchestratorState ==
    <<mainPc, exitCode, full_screen_ws, client_instruction, hookInstalled,
      gate, rawMode, rawOps, term, flushed, chan, consumed, receiverAlive>>

\* C17: every cursor-to-row sequence written, on the Error path and on the
\* goodbye path, carries the row read at startup (line 49), the one sent in
\* NewClient; that row is set once, by that read, and no resize changes it;
\* and each resize notification handled sends TerminalResize with the size
\* the terminal has at that moment and changes nothing of the main thread.
C17_StartupSizeSnapshot ==
    /\ [](\A r \in GotoRowsWritten :
             r = full_screen_ws /\ toServer[1] = NewClient(r))
    /\ [][(full_screen_ws' # full_screen_ws)
            => (mainPc = "get_terminal_size" /\ full_screen_ws' = curSize)]_vars
    /\ [][(curSize' # curSize) => OrchestratorState' = OrchestratorState]_vars
    /\ [][(sigPending' < sigPending)
            => /\ toServer' = Append(toServer, TerminalResize(curSize))
               /\ OrchestratorState' = OrchestratorState]_vars

\* C17's case: the terminal was resized after startup, the server was told
\* the new size, and the goodbye was written with the row read at startup.
C17_Witness ==
    /\ GoodbyeWritten
    /\ curSize # full_screen_ws
    /\ TerminalResize(curSize) \in Range(toServer)
    /\ GotoRowsWritten = {full_screen_ws}

\* The main loop has, at some point, consumed a terminal instruction.
EverConsumedTerminal ==
    \E i \in 1..Len(consumed) : IsTerminal(consumed[i][1])

\* A Render(Some(text)) is in the channel.
RenderQueued ==
    \E i \in 1..Len(chan) : chan[i][1].t = "Render" /\ chan[i][1].v # None

\* C18: once the main loop has consumed a terminal instruction, the only
\* thing written to the terminal is, once, the error text (if it was an
\* Error) or the goodbye banner (if it was Exit or Render(None)); the
\* payload of a Render(Some) still in the channel, or put there later, is
\* never written, and the main loop receives nothing more.
C18_NoRenderAfterTermination ==
    /\ [][(EverConsumedTerminal /\ term' # term)
            => \/ /\ ConsumedError
                  /\ term' = term \o ErrorText(full_screen_ws, Last(consumed)[1].v)
                  /\ ~(\E i \in 1..Len(term) : term[i] = restore_snapshot)
               \/ /\ ConsumedNormalEnd
                  /\ term' = term \o goodbye_message(full_screen_ws)
                  /\ ~GoodbyeWritten]_vars
    /\ [][EverConsumedTerminal
            => (consumed' = consumed /\ mainPc' \notin LoopPcs)]_vars
    /\ [](EverConsumedTerminal
            => SelectSeq(term, LAMBDA tok : tok.k \in Texts)
                 = RenderPayloads(consumed))

\* C18's case: the process has exited on the normal path, goodbye written,
\* with a Render(Some) left unwritten in the channel.
C18_Witness ==
    /\ exitCode = ExitOk
    /\ GoodbyeWritten
    /\ RenderQueued

\* The router thread runs: it was spawned and has neither returned nor
\* panicked.
RouterRunning == routerPc \in {"recv_from_server", "send", "send_exit"}

====
